---- MODULE Spec2Model ----
(***************************************************************************)
(* Umbral threshold proxy re-encryption (umbral/umbral.py).                *)
(*                                                                         *)
(* The curve group is modelled as the cyclic group of prime order `order`: *)
(* a Point is its discrete logarithm to the base g (the identity is 0),    *)
(* a BigNum is a residue modulo `order`.  hash_to_bn is a lazily sampled   *)
(* collision-free oracle with values in 1..order-1.  `oracle` keeps the    *)
(* answers that went into an object an operation returned (the s of a      *)
(* capsule, the d and z1 of split_rekey, the z3 of a challenge response)   *)
(* and the h of a capsule that reencrypt, challenge or                     *)
(* decapsulate_original verified.  KFrag.verify, check_challenge and       *)
(* _decapsulate_reencrypted ask their queries of an extension of `oracle`  *)
(* and keep nothing, and the answers about a capsule or a challenge        *)
(* response are dropped when that object is replaced.  Every gen_rand draw *)
(* is a nondeterministic choice from a pool.                               *)
(***************************************************************************)
EXTENDS Integers, Sequences, FiniteSets, TLC

VARIABLES params, priv_a, priv_b, capsule, kfrags, vKeys, kfrag, cfrag, ch, oracle, ret

vars == <<params, priv_a, priv_b, capsule, kfrags, vKeys, kfrag, cfrag, ch, oracle, ret>>

\* ------------------------------------------------------------------ bounds
\* gen_rand draws come from 1..MaxRand
MaxRand == 2
\* split_rekey is called with N <= MaxN
MaxN == 2
\* the nonces (x and y of split_rekey, t of challenge) come from 1..MaxNonce
MaxNonce == 1
\* Point.gen_rand draws MaxGen different points
MaxGen == 1
\* a new hash_to_bn query is answered by one of the first HashWidth unused scalars
HashWidth == 1

\* ------------------------------------------------- the group and its field
\* order of the group (a small prime standing for the order of secp256k1)
order == 13

BigNums == 0 .. (order - 1)
RandPool == 1 .. MaxRand
NoncePool == 1 .. MaxNonce
GenPool == (MaxRand + 1) .. (MaxRand + MaxGen)

\* Optional values: None, or a one-element tuple
None == <<>>
Some(x) == <<x>>
Get(o) == o[1]

\* BigNum arithmetic (umbral.bignum): + - * and ~ (inverse) modulo the order
BnAdd(a, b) == (a + b) % order
BnSub(a, b) == (a - b + order) % order
BnMul(a, b) == (a * b) % order
BnInv(a) == CHOOSE b \in BigNums : (a * b) % order = (IF a = 0 THEN 0 ELSE 1)

\* Point arithmetic (umbral.point): P + Q and P * bn
PtAdd(p, q) == (p + q) % order
PtMul(p, k) == (p * k) % order

\* kdf(point, key_length): a key derived from the point
kdf(p) == <<"kdf", (3 * p + 1) % order>>

\* ------------------------------------------------------------ hash_to_bn
\* values the oracle has not given out yet
Fresh(H) == (1 .. (order - 1)) \ {H[x] : x \in DOMAIN H}
Extend(H, xs, v) == [y \in (DOMAIN H) \cup {xs} |-> IF y = xs THEN v ELSE H[y]]
RECURSIVE Digest(_)
Digest(xs) == IF xs = <<>> THEN 0 ELSE (Len(xs) * Head(xs) + Digest(Tail(xs))) % (order - 1)
\* how far the scalar v lies after the digest of xs, going round 1..order-1
Rank(v, xs) == (v - 1 - Digest(xs) + (order - 1)) % (order - 1)
Candidates(H, xs) ==
    {v \in Fresh(H) : Cardinality({w \in Fresh(H) : Rank(w, xs) < Rank(v, xs)}) < HashWidth}
\* the oracles that extend H by an answer to the query xs
Ask(H, xs) == IF xs \in DOMAIN H THEN {H} ELSE {Extend(H, xs, v) : v \in Candidates(H, xs)}
hash_to_bn(xs, H) == H[xs]
\* the oracle without the answers to the queries qs, whose objects are gone
Drop(H, qs) == [y \in (DOMAIN H) \ qs |-> H[y]]

\* --------------------------------------------------------------- objects
UmbralParameters(h, u) == [g |-> 1, h |-> h, u |-> u]

KFrag(id_, key, x, u1, z1, z2) ==
    [bn_id |-> id_, bn_key |-> key, point_eph_ni |-> x,
     point_commitment |-> u1, bn_sig1 |-> z1, bn_sig2 |-> z2]

CapsuleFrag(e1, v1, id_, x) ==
    [point_eph_e1 |-> e1, point_eph_v1 |-> v1, bn_kfrag_id |-> id_, point_eph_ni |-> x]

ChallengeResponse(e2, v2, u1, u2, z1, z2, z3) ==
    [point_eph_e2 |-> e2, point_eph_v2 |-> v2, point_kfrag_commitment |-> u1,
     point_kfrag_pok |-> u2, bn_kfrag_sig1 |-> z1, bn_kfrag_sig2 |-> z2, bn_sig |-> z3]

\* Capsule.__init__: the six optional components, no cfrags, no contents
Capsule(point_eph_e, point_eph_v, bn_sig, e_prime, v_prime, noninteractive_point) ==
    [_point_eph_e |-> point_eph_e, _point_eph_v |-> point_eph_v, _bn_sig |-> bn_sig,
     _point_eph_e_prime |-> e_prime, _point_eph_v_prime |-> v_prime,
     _point_noninteractive |-> noninteractive_point,
     cfrags |-> <<>>, _contents |-> None]

\* --------------------------------------------------------------- Capsule
\* the query Capsule.verify makes
VerifyQuery(c) == <<Get(c._point_eph_e), Get(c._point_eph_v)>>

\* Capsule.verify: g*s == v + e*h
Capsule_verify(c, p, H) ==
    LET e == Get(c._point_eph_e)
        v == Get(c._point_eph_v)
        s == Get(c._bn_sig)
        h == hash_to_bn(<<e, v>>, H)
    IN  PtMul(p.g, s) = PtAdd(v, PtMul(e, h))

original_ephemeral_points(c) == PtAdd(Get(c._point_eph_e), Get(c._point_eph_v))

reconstructed_ephemeral_points(c) ==
    PtAdd(Get(c._point_eph_e_prime), Get(c._point_eph_v_prime))

\* a call's outcome: the value returned, or the exception raised
Returned(v) == [err |-> "", val |-> Some(v)]
Raised(e) == [err |-> e, val |-> None]

\* ------------------------------------------------------------------- PRE
priv2pub(p, priv) == PtMul(p.g, priv)

\* a faulty encapsulate, whose s leaves out the hash: s = priv_u + priv_r
encapsulate_no_hash(p, pub_key, priv_r, priv_u, H) ==
    LET pub_r == PtMul(p.g, priv_r)
        pub_u == PtMul(p.g, priv_u)
        shared_key == PtMul(pub_key, BnAdd(priv_r, priv_u))
    IN  [key |-> kdf(shared_key),
         capsule |-> Capsule(Some(pub_r), Some(pub_u), Some(BnAdd(priv_u, priv_r)),
                             None, None, None)]

\* PRE.encapsulate with its two draws; H answers the query <<pub_r, pub_u>>
encapsulate(p, pub_key, priv_r, priv_u, H) ==
    LET pub_r == PtMul(p.g, priv_r)
        pub_u == PtMul(p.g, priv_u)
        h == hash_to_bn(<<pub_r, pub_u>>, H)
        s == BnAdd(priv_u, BnMul(priv_r, h))
        shared_key == PtMul(pub_key, BnAdd(priv_r, priv_u))
    IN  [key |-> kdf(shared_key),
         capsule |-> Capsule(Some(pub_r), Some(pub_u), Some(s), None, None, None)]

\* a faulty decapsulate_original, whose shared key leaves out V: E * priv_key
decapsulate_original_e_only(p, priv_key, c, H) ==
    IF Capsule_verify(c, p, H)
    THEN Returned(kdf(PtMul(Get(c._point_eph_e), priv_key)))
    ELSE Raised("AssertionError")

\* PRE.decapsulate_original; H answers the capsule's verify query
decapsulate_original(p, priv_key, c, H) ==
    LET shared_key == PtMul(original_ephemeral_points(c), priv_key)
        key == kdf(shared_key)
    IN  IF Capsule_verify(c, p, H) THEN Returned(key) ELSE Raised("AssertionError")

\* poly_eval(coeff, x): Horner evaluation of coeff[1] + coeff[2]*x + ...
RECURSIVE poly_eval(_, _)
poly_eval(coeff, x) ==
    IF Len(coeff) = 1 THEN coeff[1]
    ELSE BnAdd(coeff[1], BnMul(x, poly_eval(Tail(coeff), x)))

\* lambda_coeff(id_i, selected_ids): product of id_j * ~(id_j - id_i) over the other ids
RECURSIVE lambda_prod(_, _)
lambda_prod(id_i, others) ==
    IF others = {} THEN 1
    ELSE LET id_j == CHOOSE x \in others : TRUE
         IN  BnMul(BnMul(id_j, BnInv(BnSub(id_j, id_i))), lambda_prod(id_i, others \ {id_j}))
lambda_coeff(id_i, selected_ids) == lambda_prod(id_i, selected_ids \ {id_i})

\* the query that signs a kfrag (split_rekey) and that checks it (KFrag.verify, check_challenge)
SigQuery(g_y, id_, pa, pb, u1, x) == <<g_y, id_, pa, pb, u1, x>>

\* KFrag.verify(pub_a, pub_b): what it asks, and its answer
KFragVerifyQuery(k, pa, pb, p) ==
    SigQuery(PtAdd(PtMul(p.g, k.bn_sig2), PtMul(pa, k.bn_sig1)),
             k.bn_id, pa, pb, k.point_commitment, k.point_eph_ni)
\* a faulty KFrag.verify, which recomputes g^y and compares nothing
KFrag_verify_accepting(k, pa, pb, p, H) ==
    hash_to_bn(KFragVerifyQuery(k, pa, pb, p), H) \in BigNums
KFrag_verify(k, pa, pb, p, H) ==
    k.bn_sig1 = hash_to_bn(KFragVerifyQuery(k, pa, pb, p), H)

\* split_rekey, first part: the ephemeral key x, d, and the polynomial's coefficients
DhQuery(p, pb, x) == <<PtMul(p.g, x), pb, PtMul(pb, x)>>
split_coeffs(p, priv, pb, x, rand_coeffs, H) ==
    LET d == hash_to_bn(DhQuery(p, pb, x), H)
    IN  <<BnMul(priv, BnInv(d))>> \o rand_coeffs

\* a faulty signature: z2 = y + priv * z1
split_share_wrong_sign(p, priv, pb, coeffs, xcomp, id_kfrag, y, H) ==
    LET rk == poly_eval(coeffs, id_kfrag)
        u1 == PtMul(p.u, rk)
        z1 == hash_to_bn(SigQuery(PtMul(p.g, y), id_kfrag, PtMul(p.g, priv), pb, u1, xcomp), H)
        z2 == BnAdd(y, BnMul(priv, z1))
    IN  KFrag(id_kfrag, rk, xcomp, u1, z1, z2)

\* split_rekey, loop body: the kfrag with id id_kfrag, signed with the nonce y
ShareQuery(p, priv, pb, coeffs, xcomp, id_kfrag, y) ==
    SigQuery(PtMul(p.g, y), id_kfrag, PtMul(p.g, priv), pb,
             PtMul(p.u, poly_eval(coeffs, id_kfrag)), xcomp)
split_share(p, priv, pb, coeffs, xcomp, id_kfrag, y, H) ==
    LET rk == poly_eval(coeffs, id_kfrag)
        u1 == PtMul(p.u, rk)
        z1 == hash_to_bn(SigQuery(PtMul(p.g, y), id_kfrag, PtMul(p.g, priv), pb, u1, xcomp), H)
        z2 == BnSub(y, BnMul(priv, z1))
    IN  KFrag(id_kfrag, rk, xcomp, u1, z1, z2)

\* split_rekey, the loop: every (rk_shares, oracle) the draws ids, ys can give
RECURSIVE split_shares(_, _, _, _, _, _, _, _)
split_shares(p, priv, pb, coeffs, xcomp, ids, ys, H) ==
    IF ids = <<>> THEN {[rk_shares |-> <<>>, H |-> H]}
    ELSE UNION {
           {[rk_shares |-> <<split_share(p, priv, pb, coeffs, xcomp, Head(ids), Head(ys), H1)>>
                            \o r.rk_shares,
             H |-> r.H] :
              r \in split_shares(p, priv, pb, coeffs, xcomp, Tail(ids), Tail(ys), H1)} :
           H1 \in Ask(H, ShareQuery(p, priv, pb, coeffs, xcomp, Head(ids), Head(ys)))}

\* split_rekey(priv_a, pub_b, threshold, N): x, rand_coeffs, ids and ys are its draws
split_rekey(p, priv, pb, x, rand_coeffs, ids, ys, H) ==
    UNION {
      LET coeffs == split_coeffs(p, priv, pb, x, rand_coeffs, H1)
      IN  {[rk_shares |-> r.rk_shares, vKeys |-> [j \in DOMAIN coeffs |-> PtMul(p.h, coeffs[j])],
            H |-> r.H] :
             r \in split_shares(p, priv, pb, coeffs, PtMul(p.g, x), ids, ys, H1)} :
      H1 \in Ask(H, DhQuery(p, pb, x))}

\* a faulty reencrypt, which does not require capsule.verify()
reencrypt_unchecked(p, kFrag, c, H) ==
    Returned(CapsuleFrag(PtMul(Get(c._point_eph_e), kFrag.bn_key),
                         PtMul(Get(c._point_eph_v), kFrag.bn_key),
                         kFrag.bn_id, kFrag.point_eph_ni))

\* PRE.reencrypt
reencrypt(p, kFrag, c, H) ==
    IF ~Capsule_verify(c, p, H) THEN Raised("AssertionError")
    ELSE Returned(CapsuleFrag(PtMul(Get(c._point_eph_e), kFrag.bn_key),
                              PtMul(Get(c._point_eph_v), kFrag.bn_key),
                              kFrag.bn_id, kFrag.point_eph_ni))

\* the query of challenge and check_challenge
ChQuery(e, e1, e2, v, v1, v2, u, u1, u2) == <<e, e1, e2, v, v1, v2, u, u1, u2>>
ChallengeQuery(p, rk, c, cF, t) ==
    LET e == Get(c._point_eph_e)
        v == Get(c._point_eph_v)
    IN  ChQuery(e, cF.point_eph_e1, PtMul(e, t), v, cF.point_eph_v1, PtMul(v, t),
                p.u, rk.point_commitment, PtMul(p.u, t))

\* a faulty challenge, whose response leaves out the re-encryption key: z3 = t + h
challenge_without_key(p, rk, c, cF, t, H) ==
    LET e == Get(c._point_eph_e)
        v == Get(c._point_eph_v)
        h == hash_to_bn(ChallengeQuery(p, rk, c, cF, t), H)
        ch_resp == ChallengeResponse(PtMul(e, t), PtMul(v, t), rk.point_commitment,
                                     PtMul(p.u, t), rk.bn_sig1, rk.bn_sig2, BnAdd(t, h))
    IN  IF Capsule_verify(c, p, H) THEN Returned(ch_resp) ELSE Raised("AssertionError")

\* PRE.challenge; t is its draw
challenge(p, rk, c, cF, t, H) ==
    LET e1 == cF.point_eph_e1
        v1 == cF.point_eph_v1
        e == Get(c._point_eph_e)
        v == Get(c._point_eph_v)
        u == p.u
        u1 == rk.point_commitment
        e2 == PtMul(e, t)
        v2 == PtMul(v, t)
        u2 == PtMul(u, t)
        h == hash_to_bn(ChQuery(e, e1, e2, v, v1, v2, u, u1, u2), H)
        z3 == BnAdd(t, BnMul(h, rk.bn_key))
        ch_resp == ChallengeResponse(e2, v2, u1, u2, rk.bn_sig1, rk.bn_sig2, z3)
    IN  IF Capsule_verify(c, p, H) THEN Returned(ch_resp) ELSE Raised("AssertionError")

\* PRE.check_challenge: its two queries and its answer
CheckQuery(p, c, cF, r) ==
    ChQuery(Get(c._point_eph_e), cF.point_eph_e1, r.point_eph_e2,
            Get(c._point_eph_v), cF.point_eph_v1, r.point_eph_v2,
            p.u, r.point_kfrag_commitment, r.point_kfrag_pok)
CheckSigQuery(p, cF, r, pa, pb) ==
    SigQuery(PtAdd(PtMul(p.g, r.bn_kfrag_sig2), PtMul(pa, r.bn_kfrag_sig1)),
             cF.bn_kfrag_id, pa, pb, r.point_kfrag_commitment, cF.point_eph_ni)
\* a faulty check_challenge, which leaves out the equation on the commitment (check33)
check_challenge_without_check33(p, c, cF, challenge_resp, pa, pb, H) ==
    LET e == Get(c._point_eph_e)
        h == hash_to_bn(CheckQuery(p, c, cF, challenge_resp), H)
        check31 == challenge_resp.bn_kfrag_sig1
                     = hash_to_bn(CheckSigQuery(p, cF, challenge_resp, pa, pb), H)
        check32 == PtMul(e, challenge_resp.bn_sig)
                     = PtAdd(challenge_resp.point_eph_e2, PtMul(cF.point_eph_e1, h))
    IN  check31 /\ check32
check_challenge(p, c, cF, challenge_resp, pa, pb, H) ==
    LET e == Get(c._point_eph_e)
        e1 == cF.point_eph_e1
        e2 == challenge_resp.point_eph_e2
        u == p.u
        u1 == challenge_resp.point_kfrag_commitment
        u2 == challenge_resp.point_kfrag_pok
        z1 == challenge_resp.bn_kfrag_sig1
        z3 == challenge_resp.bn_sig
        h == hash_to_bn(CheckQuery(p, c, cF, challenge_resp), H)
        check31 == z1 = hash_to_bn(CheckSigQuery(p, cF, challenge_resp, pa, pb), H)
        check32 == PtMul(e, z3) = PtAdd(e2, PtMul(e1, h))
        check33 == PtMul(u, z3) = PtAdd(u2, PtMul(u1, h))
    IN  check31 /\ check32 /\ check33

\* Capsule.attach_cfrag: self.cfrags[cfrag.bn_kfrag_id] = cfrag, a dict in insertion order
attach_cfrag(c, cF) ==
    LET at == {i \in DOMAIN c.cfrags : c.cfrags[i].bn_kfrag_id = cF.bn_kfrag_id}
    IN  IF at = {} THEN [c EXCEPT !.cfrags = Append(c.cfrags, cF)]
        ELSE [c EXCEPT !.cfrags = [i \in DOMAIN c.cfrags |-> IF i \in at THEN cF ELSE c.cfrags[i]]]

\* a faulty sum, which leaves out the Lagrange coefficients
RECURSIVE reconstruct_sum_unweighted(_, _, _)
reconstruct_sum_unweighted(cFs, ids, point) ==
    IF cFs = <<>> THEN 0
    ELSE PtAdd(Head(cFs)[point], reconstruct_sum_unweighted(Tail(cFs), ids, point))

\* a faulty sum, whose weights are the positions of the cfrags and not their coefficients
RECURSIVE reconstruct_sum_by_position(_, _, _)
reconstruct_sum_by_position(cFs, ids, point) ==
    IF cFs = <<>> THEN 0
    ELSE PtAdd(PtMul(Head(cFs)[point], Len(cFs)),
               reconstruct_sum_by_position(Tail(cFs), ids, point))

\* Capsule._reconstruct, the sums e and v over the attached cfrags
RECURSIVE reconstruct_sum(_, _, _)
reconstruct_sum(cFs, ids, point) ==
    IF cFs = <<>> THEN 0
    ELSE PtAdd(PtMul(Head(cFs)[point], lambda_coeff(Head(cFs).bn_kfrag_id, ids)),
               reconstruct_sum(Tail(cFs), ids, point))

\* Capsule._reconstruct: the capsule it leaves, or the exception
Capsule_reconstruct(c) ==
    IF c.cfrags = <<>> THEN [err |-> "IndexError", capsule |-> c]
    ELSE LET cfrag_0 == c.cfrags[1]
             ids == {c.cfrags[i].bn_kfrag_id : i \in DOMAIN c.cfrags}
             e == IF Len(c.cfrags) > 1 THEN reconstruct_sum(c.cfrags, ids, "point_eph_e1")
                  ELSE cfrag_0.point_eph_e1
             v == IF Len(c.cfrags) > 1 THEN reconstruct_sum(c.cfrags, ids, "point_eph_v1")
                  ELSE cfrag_0.point_eph_v1
         IN  [err |-> "",
              capsule |-> [c EXCEPT !._point_eph_e_prime = Some(e),
                                    !._point_eph_v_prime = Some(v),
                                    !._point_noninteractive = Some(cfrag_0.point_eph_ni)]]

\* PRE._decapsulate_reencrypted: its queries and its outcome
DecapDhQuery(c, pub_key, priv_key) ==
    <<Get(c._point_noninteractive), pub_key, PtMul(Get(c._point_noninteractive), priv_key)>>
Reconstructed(c) ==
    c._point_noninteractive # None /\ c._point_eph_e_prime # None /\ c._point_eph_v_prime # None
\* a faulty _decapsulate_reencrypted, which leaves out the correctness check
decapsulate_reencrypted_unchecked(p, pub_key, priv_key, orig_pub_key, c, H) ==
    IF ~Reconstructed(c) THEN Raised("TypeError")
    ELSE LET xcomp == Get(c._point_noninteractive)
             d == hash_to_bn(<<xcomp, pub_key, PtMul(xcomp, priv_key)>>, H)
         IN  Returned(kdf(PtMul(reconstructed_ephemeral_points(c), d)))
decapsulate_reencrypted(p, pub_key, priv_key, orig_pub_key, c, H) ==
    IF ~Reconstructed(c) THEN Raised("TypeError")
    ELSE LET xcomp == Get(c._point_noninteractive)
             d == hash_to_bn(<<xcomp, pub_key, PtMul(xcomp, priv_key)>>, H)
             shared_key == PtMul(reconstructed_ephemeral_points(c), d)
             key_bytes == kdf(shared_key)
         IN  IF c._point_eph_e # None
             THEN LET e == Get(c._point_eph_e)
                      v == Get(c._point_eph_v)
                      s == Get(c._bn_sig)
                      h == hash_to_bn(<<e, v>>, H)
                      inv_d == BnInv(d)
                  IN  IF PtMul(orig_pub_key, BnMul(s, inv_d))
                           = PtAdd(Get(c._point_eph_v_prime), PtMul(Get(c._point_eph_e_prime), h))
                      THEN Returned(key_bytes)
                      ELSE Raised("AssertionError")
             ELSE Returned(key_bytes)

\* the oracles that answer both queries of _decapsulate_reencrypted on c
DecapAsk(H, c, pub_key, priv_key) ==
    IF ~Reconstructed(c) THEN {H}
    ELSE UNION {IF c._point_eph_e # None THEN Ask(H1, VerifyQuery(c)) ELSE {H1} :
                H1 \in Ask(H, DecapDhQuery(c, pub_key, priv_key))}

\* ------------------------------------------------------------------ state
Init ==
    /\ \E h \in GenPool, u \in GenPool : params = UmbralParameters(h, u)
    /\ priv_a \in RandPool
    /\ priv_b \in RandPool
    /\ capsule = None
    /\ kfrags = <<>>
    /\ vKeys = <<>>
    /\ kfrag = None
    /\ cfrag = None
    /\ ch = None
    /\ oracle = <<>>
    /\ ret = [op |-> "init", args |-> <<>>, err |-> "", val |-> None]

pub_a == priv2pub(params, priv_a)
pub_b == priv2pub(params, priv_b)
Range(f) == {f[i] : i \in DOMAIN f}
\* values a field is overwritten with
TamperPool == 0 .. MaxRand

\* the queries whose answers went into the capsule, and into the challenge response
CapsuleQueries == IF capsule = None THEN {} ELSE {VerifyQuery(Get(capsule))}
ChQueries ==
    IF capsule = None \/ cfrag = None \/ ch = None THEN {}
    ELSE {CheckQuery(params, Get(capsule), Get(cfrag), Get(ch))}

\* sym_key, capsule = encapsulate(pub_key)
EncapsulateFor(pub_key) ==
    \E priv_r \in RandPool, priv_u \in RandPool :
      \E H \in Ask(Drop(oracle, CapsuleQueries),
                   <<PtMul(params.g, priv_r), PtMul(params.g, priv_u)>>) :
        LET r == encapsulate(params, pub_key, priv_r, priv_u, H)
        IN  /\ capsule' = Some(r.capsule)
            /\ oracle' = H
            /\ ret' = [op |-> "encapsulate", args |-> <<pub_key>>,
                       err |-> "", val |-> Some(r.key)]
            /\ UNCHANGED <<params, priv_a, priv_b, kfrags, vKeys, kfrag, cfrag, ch>>

\* Capsule(point_eph_e=Point.gen_rand(), point_eph_v=Point.gen_rand(), bn_sig=BigNum.gen_rand())
NewCapsule ==
    \E e \in RandPool \cup GenPool, v \in RandPool \cup GenPool, s \in NoncePool :
        /\ capsule' = Some(Capsule(Some(e), Some(v), Some(s), None, None, None))
        /\ ch' = None
        /\ oracle' = Drop(oracle, CapsuleQueries \cup ChQueries)
        /\ ret' = [op |-> "Capsule", args |-> <<>>, err |-> "", val |-> None]
        /\ UNCHANGED <<params, priv_a, priv_b, kfrags, vKeys, kfrag, cfrag>>

\* decapsulate_original(priv_key, capsule)
DecapsulateOriginal ==
    /\ capsule # None
    /\ \E priv_key \in {priv_a, priv_b} :
         \E H \in Ask(oracle, VerifyQuery(Get(capsule))) :
            LET r == decapsulate_original(params, priv_key, Get(capsule), H)
            IN  /\ oracle' = H
                /\ ret' = [op |-> "decapsulate_original", args |-> <<priv_key>>,
                           err |-> r.err, val |-> r.val]
                /\ UNCHANGED <<params, priv_a, priv_b, capsule, kfrags, vKeys, kfrag, cfrag, ch>>

\* kfrags, vkeys = split_rekey(priv_a, pub_b, threshold, N), once in a run
SplitRekey ==
    /\ kfrags = <<>>
    /\ \E N \in 1 .. MaxN :
       \E threshold \in 1 .. N, x \in NoncePool :
       \E rand_coeffs \in [1 .. (threshold - 1) -> RandPool],
          ids \in [1 .. N -> RandPool], ys \in [1 .. N -> NoncePool] :
       \E r \in split_rekey(params, priv_a, pub_b, x, rand_coeffs, ids, ys, oracle) :
            /\ kfrags' = r.rk_shares
            /\ vKeys' = r.vKeys
            /\ oracle' = r.H
            /\ ret' = [op |-> "split_rekey", args |-> <<>>, err |-> "", val |-> None]
            /\ UNCHANGED <<params, priv_a, priv_b, capsule, kfrag, cfrag, ch>>

\* kfrag = kfrags[i], for a new re-encryption
PickKFrag ==
    \E i \in DOMAIN kfrags :
        /\ kfrag' = Some(kfrags[i])
        /\ cfrag' = None
        /\ ch' = None
        /\ oracle' = Drop(oracle, ChQueries)
        /\ ret' = [op |-> "pick", args |-> <<>>, err |-> "", val |-> None]
        /\ UNCHANGED <<params, priv_a, priv_b, capsule, kfrags, vKeys>>

\* one field of a kfrag of split_rekey is overwritten with another value
KFragFields ==
    {"bn_id", "bn_key", "point_eph_ni", "point_commitment", "bn_sig1", "bn_sig2"}
TamperKFrag(f) ==
    /\ kfrag # None
    /\ Get(kfrag) \in Range(kfrags)
    /\ \E x \in TamperPool :
        /\ x # Get(kfrag)[f]
        /\ kfrag' = Some([Get(kfrag) EXCEPT ![f] = x])
        /\ cfrag' = None
        /\ ch' = None
        /\ oracle' = Drop(oracle, ChQueries)
        /\ ret' = [op |-> "tamper_kfrag", args |-> <<f>>, err |-> "", val |-> None]
        /\ UNCHANGED <<params, priv_a, priv_b, capsule, kfrags, vKeys>>

\* kfrag.verify(pub_a, pub_b)
KFragVerify(pa, pb) ==
    /\ kfrag # None
    /\ \E H \in Ask(oracle, KFragVerifyQuery(Get(kfrag), pa, pb, params)) :
            /\ ret' = [op |-> "kfrag_verify", args |-> <<pa, pb>>, err |-> "",
                       val |-> Some(KFrag_verify(Get(kfrag), pa, pb, params, H))]
            /\ UNCHANGED <<params, priv_a, priv_b, capsule, kfrags, vKeys, kfrag, cfrag, ch,
                           oracle>>

\* cfrag = reencrypt(kFrag, capsule), for a new challenge
ReencryptWith(kFrag) ==
    /\ capsule # None
    /\ \E H \in Ask(oracle, VerifyQuery(Get(capsule))) :
        LET r == reencrypt(params, kFrag, Get(capsule), H)
        IN  /\ cfrag' = IF r.err = "" THEN r.val ELSE cfrag
            /\ ch' = IF r.err = "" THEN None ELSE ch
            /\ oracle' = IF r.err = "" THEN Drop(H, ChQueries) ELSE H
            /\ ret' = [op |-> "reencrypt", args |-> <<>>, err |-> r.err, val |-> r.val]
            /\ UNCHANGED <<params, priv_a, priv_b, capsule, kfrags, vKeys, kfrag>>

\* one of the two points of a cfrag of reencrypt is overwritten with another value
Reencrypted(cF, k, c) ==
    cF = CapsuleFrag(PtMul(Get(c._point_eph_e), k.bn_key), PtMul(Get(c._point_eph_v), k.bn_key),
                     k.bn_id, k.point_eph_ni)
TamperCFrag ==
    /\ cfrag # None
    /\ capsule # None
    /\ kfrag # None
    /\ Reencrypted(Get(cfrag), Get(kfrag), Get(capsule))
    /\ \E f \in {"point_eph_e1", "point_eph_v1"}, x \in TamperPool :
        /\ x # Get(cfrag)[f]
        /\ cfrag' = Some([Get(cfrag) EXCEPT ![f] = x])
        /\ ch' = None
        /\ oracle' = Drop(oracle, ChQueries)
        /\ ret' = [op |-> "tamper_cfrag", args |-> <<f>>, err |-> "", val |-> None]
        /\ UNCHANGED <<params, priv_a, priv_b, capsule, kfrags, vKeys, kfrag>>

\* ch = challenge(rk, capsule, cfrag)
ChallengeWith(rk) ==
    /\ capsule # None
    /\ cfrag # None
    /\ \E t \in NoncePool :
       \E H1 \in Ask(oracle, ChallengeQuery(params, rk, Get(capsule), Get(cfrag), t)) :
       \E H \in Ask(H1, VerifyQuery(Get(capsule))) :
        LET r == challenge(params, rk, Get(capsule), Get(cfrag), t, H)
        IN  /\ oracle' = IF r.err = ""
                          THEN H
                          ELSE Drop(H, {ChallengeQuery(params, rk, Get(capsule), Get(cfrag), t)}
                                       \ DOMAIN oracle)
            /\ ch' = IF r.err = "" THEN r.val ELSE ch
            /\ ret' = [op |-> "challenge", args |-> <<>>, err |-> r.err, val |-> r.val]
            /\ UNCHANGED <<params, priv_a, priv_b, capsule, kfrags, vKeys, kfrag, cfrag>>

\* check_challenge(capsule, cfrag, ch, pub_a, pub_b)
CheckChallenge ==
    /\ capsule # None
    /\ cfrag # None
    /\ ch # None
    /\ \E H1 \in Ask(oracle, CheckQuery(params, Get(capsule), Get(cfrag), Get(ch))) :
       \E H \in Ask(H1, CheckSigQuery(params, Get(cfrag), Get(ch), pub_a, pub_b)) :
            /\ ret' = [op |-> "check_challenge", args |-> <<>>, err |-> "",
                       val |-> Some(check_challenge(params, Get(capsule), Get(cfrag), Get(ch),
                                                    pub_a, pub_b, H))]
            /\ UNCHANGED <<params, priv_a, priv_b, capsule, kfrags, vKeys, kfrag, cfrag, ch,
                           oracle>>

\* capsule.attach_cfrag(cfrag)
AttachCfrag ==
    /\ capsule # None
    /\ cfrag # None
    /\ capsule' = Some(attach_cfrag(Get(capsule), Get(cfrag)))
    /\ ret' = [op |-> "attach_cfrag", args |-> <<>>, err |-> "", val |-> None]
    /\ UNCHANGED <<params, priv_a, priv_b, kfrags, vKeys, kfrag, cfrag, ch, oracle>>

\* capsule._reconstruct()
Reconstruct ==
    /\ capsule # None
    /\ LET r == Capsule_reconstruct(Get(capsule))
       IN  /\ capsule' = Some(r.capsule)
           /\ ret' = [op |-> "_reconstruct", args |-> <<>>, err |-> r.err, val |-> None]
    /\ UNCHANGED <<params, priv_a, priv_b, kfrags, vKeys, kfrag, cfrag, ch, oracle>>

\* _decapsulate_reencrypted(pub_b, priv_b, pub_a, capsule)
DecapsulateReencrypted ==
    /\ capsule # None
    /\ \E H \in DecapAsk(oracle, Get(capsule), pub_b, priv_b) :
        LET r == decapsulate_reencrypted(params, pub_b, priv_b, pub_a, Get(capsule), H)
        IN  ret' = [op |-> "_decapsulate_reencrypted", args |-> <<>>,
                    err |-> r.err, val |-> r.val]
    /\ UNCHANGED <<params, priv_a, priv_b, capsule, kfrags, vKeys, kfrag, cfrag, ch, oracle>>

\* a faulty open, which reconstructs and decapsulates whatever contents the capsule holds
OpenReopening ==
    /\ capsule # None
    /\ \E force_reopen \in BOOLEAN :
        LET c == Get(capsule)
            rc == Capsule_reconstruct(c)
        IN  IF rc.err # ""
            THEN /\ ret' = [op |-> "open", args |-> <<force_reopen>>,
                            err |-> rc.err, val |-> None]
                 /\ UNCHANGED capsule
            ELSE \E H \in DecapAsk(oracle, rc.capsule, pub_b, priv_b) :
                   LET r == decapsulate_reencrypted(params, pub_b, priv_b, pub_a,
                                                    rc.capsule, H)
                   IN  /\ capsule' = IF r.err = ""
                                     THEN Some([rc.capsule EXCEPT !._contents = r.val])
                                     ELSE Some(rc.capsule)
                       /\ ret' = [op |-> "open", args |-> <<force_reopen>>,
                                  err |-> r.err,
                                  val |-> IF r.err = ""
                                          THEN Some(<<r.val, FALSE>>) ELSE None]
    /\ UNCHANGED <<params, priv_a, priv_b, kfrags, vKeys, kfrag, cfrag, ch, oracle>>

\* capsule.open(pub_b, priv_b, pub_a, force_reopen, pre)
Open ==
    /\ capsule # None
    /\ \E force_reopen \in BOOLEAN :
        LET c == Get(capsule)
        IN  IF c._contents # None /\ ~force_reopen
            THEN /\ ret' = [op |-> "open", args |-> <<force_reopen>>, err |-> "",
                            val |-> Some(<<c._contents, TRUE>>)]
                 /\ UNCHANGED capsule
            ELSE LET rc == Capsule_reconstruct(c)
                 IN  IF rc.err # ""
                     THEN /\ ret' = [op |-> "open", args |-> <<force_reopen>>,
                                     err |-> rc.err, val |-> None]
                          /\ UNCHANGED capsule
                     ELSE \E H \in DecapAsk(oracle, rc.capsule, pub_b, priv_b) :
                            LET r == decapsulate_reencrypted(params, pub_b, priv_b, pub_a,
                                                             rc.capsule, H)
                            IN  /\ capsule' = IF r.err = ""
                                              THEN Some([rc.capsule EXCEPT !._contents = r.val])
                                              ELSE Some(rc.capsule)
                                /\ ret' = [op |-> "open", args |-> <<force_reopen>>,
                                           err |-> r.err,
                                           val |-> IF r.err = ""
                                                   THEN Some(<<r.val, FALSE>>) ELSE None]
    /\ UNCHANGED <<params, priv_a, priv_b, kfrags, vKeys, kfrag, cfrag, ch, oracle>>

\* ------------------------------------------------------- specifications
\* a delegation: encapsulate, split_rekey, reencrypt, attach, open
Next ==
    \/ capsule = None /\ EncapsulateFor(pub_a)
    \/ SplitRekey
    \/ \E i \in DOMAIN kfrags : ReencryptWith(kfrags[i])
    \/ AttachCfrag
    \/ Reconstruct
    \/ DecapsulateReencrypted
    \/ Open

Spec == Init /\ [][Next]_vars

\* the key encapsulation, with capsules built from arbitrary components
NextKEM ==
    \/ EncapsulateFor(pub_a)
    \/ EncapsulateFor(pub_b)
    \/ NewCapsule
    \/ DecapsulateOriginal

SpecKEM == Init /\ [][NextKEM]_vars

\* the operations that require a valid capsule, on capsules of both kinds
NextBad ==
    \/ capsule = None /\ EncapsulateFor(pub_a)
    \/ NewCapsule
    \/ SplitRekey
    \/ \E i \in DOMAIN kfrags : ReencryptWith(kfrags[i])
    \/ \E i \in DOMAIN kfrags : ch = None /\ ChallengeWith(kfrags[i])
    \/ DecapsulateOriginal

SpecBad == Init /\ [][NextBad]_vars

\* the kfrags and their signatures, with tampered kfrags and other keys
NextKFrag ==
    \/ SplitRekey
    \/ PickKFrag
    \/ \E f \in KFragFields : TamperKFrag(f)
    \/ \E pa \in {pub_a, pub_b}, pb \in {pub_a, pub_b} : KFragVerify(pa, pb)

SpecKFrag == Init /\ [][NextKFrag]_vars

\* the proof of re-encryption, with a tampered re-encryption key or cfrag
NextProof ==
    \/ capsule = None /\ EncapsulateFor(pub_a)
    \/ SplitRekey
    \/ PickKFrag
    \/ TamperKFrag("bn_key")
    \/ KFragVerify(pub_a, pub_b)
    \/ kfrag # None /\ ReencryptWith(Get(kfrag))
    \/ TamperCFrag
    \/ kfrag # None /\ ch = None /\ ChallengeWith(Get(kfrag))
    \/ CheckChallenge

SpecProof == Init /\ [][NextProof]_vars

\* ----------------------------------------------------------------- claims
\* the components a capsule was constructed with
original_components(c) == <<c._point_eph_e, c._point_eph_v, c._bn_sig>>

\* c is the capsule encapsulate(pub_key) returns when it draws priv_r, priv_u
EncapsulatedBy(c, pub_key, priv_r, priv_u) ==
    /\ <<PtMul(params.g, priv_r), PtMul(params.g, priv_u)>> \in DOMAIN oracle
    /\ original_components(c)
         = original_components(encapsulate(params, pub_key, priv_r, priv_u, oracle).capsule)

\* the capsule's verify query has been answered, and Capsule.verify() is false
CapsuleInvalid ==
    /\ capsule # None
    /\ VerifyQuery(Get(capsule)) \in DOMAIN oracle
    /\ ~Capsule_verify(Get(capsule), params, oracle)

\* C1: for every private key sk with public key g*sk, decapsulate_original(sk, capsule) on
\* the capsule that encapsulate(g*sk) returned raises nothing and returns the key that
\* encapsulate returned with the capsule.
C1_DecapsulateOriginalReturnsKey ==
    ret.op = "decapsulate_original" =>
        \A priv_r \in RandPool, priv_u \in RandPool :
            LET pub_key == priv2pub(params, ret.args[1])
            IN  EncapsulatedBy(Get(capsule), pub_key, priv_r, priv_u) =>
                    /\ ret.err = ""
                    /\ ret.val
                         = Some(encapsulate(params, pub_key, priv_r, priv_u, oracle).key)

C1_Witness ==
    /\ ret.op = "decapsulate_original"
    /\ ret.err = ""
    /\ \E priv_r \in RandPool, priv_u \in RandPool :
          LET pub_key == priv2pub(params, ret.args[1])
          IN  /\ EncapsulatedBy(Get(capsule), pub_key, priv_r, priv_u)
              /\ ret.val = Some(encapsulate(params, pub_key, priv_r, priv_u, oracle).key)

\* C4: the capsule that encapsulate returns satisfies Capsule.verify():
\* g*s = V + E*hash(E, V).
C4_EncapsulatedCapsuleVerifies ==
    ret.op = "encapsulate" =>
        /\ ret.err = ""
        /\ capsule # None
        /\ VerifyQuery(Get(capsule)) \in DOMAIN oracle
        /\ Capsule_verify(Get(capsule), params, oracle)

C4_Witness ==
    /\ ret.op = "encapsulate"
    /\ ret.val # None
    /\ \E priv_r \in RandPool, priv_u \in RandPool :
          EncapsulatedBy(Get(capsule), ret.args[1], priv_r, priv_u)
    /\ Capsule_verify(Get(capsule), params, oracle)

\* C5: reencrypt, challenge and decapsulate_original raise an error and return nothing
\* whenever the capsule they are given does not satisfy Capsule.verify().
C5_InvalidCapsuleIsRefused ==
    (ret.op \in {"reencrypt", "challenge", "decapsulate_original"} /\ CapsuleInvalid) =>
        /\ ret.err # ""
        /\ ret.val = None

C5_Witness ==
    /\ ret.op = "challenge"
    /\ CapsuleInvalid
    /\ ret.err = "AssertionError"
    /\ ret.val = None

\* k is a kfrag of split_rekey with the one field f overwritten with a different value
Tampered(k, f) ==
    \E k0 \in Range(kfrags) : k[f] # k0[f] /\ k = [k0 EXCEPT ![f] = k[f]]

\* C6: every kfrag that split_rekey(priv_a, pub_b, t, N) returns verifies:
\* KFrag.verify(pub_a, pub_b) is true, with pub_a = g*priv_a.
C6_KFragsVerify ==
    (ret.op = "kfrag_verify" /\ Get(kfrag) \in Range(kfrags) /\ ret.args = <<pub_a, pub_b>>)
        => ret.val = Some(TRUE)

C6_Witness ==
    /\ ret.op = "kfrag_verify"
    /\ Get(kfrag) \in Range(kfrags)
    /\ ret.args = <<pub_a, pub_b>>
    /\ ret.val = Some(TRUE)

\* C7 as stated: with the hash free of collisions, KFrag.verify(pub_a, pub_b) is false
\* for a kfrag of split_rekey in which one of bn_id, point_commitment, point_eph_ni,
\* bn_sig1, bn_sig2 was replaced by a different value, and KFrag.verify is false for an
\* unmodified kfrag and a pub_a or pub_b other than the keys given to split_rekey.
C7_Original ==
    ret.op = "kfrag_verify" =>
        /\ \A f \in {"bn_id", "point_commitment", "point_eph_ni", "bn_sig1", "bn_sig2"} :
              (Tampered(Get(kfrag), f) /\ ret.args = <<pub_a, pub_b>>)
                  => ret.val = Some(FALSE)
        /\ (Get(kfrag) \in Range(kfrags) /\ ret.args # <<pub_a, pub_b>>)
              => ret.val = Some(FALSE)

\* C7, amended: with the hash free of collisions, KFrag.verify(pub_a, pub_b) is false for
\* a kfrag of split_rekey in which one of bn_id, point_commitment, point_eph_ni, bn_sig2
\* was replaced by a different value, and for an unmodified kfrag and a pub_a or pub_b
\* other than the keys given to split_rekey; a kfrag whose bn_sig1 was replaced by z
\* verifies only when z is the hash of the query that z changes, a query that split_rekey
\* never made.
C7_TamperedKFragFailsVerify ==
    ret.op = "kfrag_verify" =>
        /\ \A f \in {"bn_id", "point_commitment", "point_eph_ni", "bn_sig2"} :
              (Tampered(Get(kfrag), f) /\ ret.args = <<pub_a, pub_b>>)
                  => ret.val = Some(FALSE)
        /\ (Get(kfrag) \in Range(kfrags) /\ ret.args # <<pub_a, pub_b>>)
              => ret.val = Some(FALSE)
        /\ (Tampered(Get(kfrag), "bn_sig1") /\ ret.args = <<pub_a, pub_b>>
                /\ ret.val = Some(TRUE))
              => LET q == KFragVerifyQuery(Get(kfrag), pub_a, pub_b, params)
                 IN  /\ q \notin DOMAIN oracle
                     /\ \E H \in Ask(oracle, q) : hash_to_bn(q, H) = Get(kfrag).bn_sig1

C7_Witness ==
    /\ ret.op = "kfrag_verify"
    /\ Tampered(Get(kfrag), "bn_sig2")
    /\ ret.args = <<pub_a, pub_b>>
    /\ ret.val = Some(FALSE)

\* r is the response challenge(rk, c, cF) returns for one of its draws
ChallengeMadeBy(r, rk, c, cF) ==
    \E t \in NoncePool :
        /\ ChallengeQuery(params, rk, c, cF, t) \in DOMAIN oracle
        /\ VerifyQuery(c) \in DOMAIN oracle
        /\ challenge(params, rk, c, cF, t, oracle) = Returned(r)

\* check_challenge has answered for the cfrag and the response that reencrypt and
\* challenge made with the kfrag at hand
CheckedOwnProof ==
    /\ ret.op = "check_challenge"
    /\ Reencrypted(Get(cfrag), Get(kfrag), Get(capsule))
    /\ ChallengeMadeBy(Get(ch), Get(kfrag), Get(capsule), Get(cfrag))

\* C8: for a valid capsule and a kfrag of split_rekey, check_challenge is true on
\* cfrag = reencrypt(kfrag, capsule) and ch = challenge(kfrag, capsule, cfrag).
C8_HonestChallengePasses ==
    (CheckedOwnProof /\ Get(kfrag) \in Range(kfrags)) => ret.val = Some(TRUE)

C8_Witness ==
    /\ CheckedOwnProof
    /\ Get(kfrag) \in Range(kfrags)
    /\ Capsule_verify(Get(capsule), params, oracle)
    /\ ret.val = Some(TRUE)

\* C9: check_challenge returns true only if the three equations hold, with h the hash of
\* the challenge's points: z*E = E2 + h*E1, z*V = V2 + h*V1 and z*u = U2 + h*U1, so that
\* a cfrag whose V1 is not rk*V is rejected.
C9_ThreeEquationsEnforced ==
    (ret.op = "check_challenge" /\ ret.val = Some(TRUE)) =>
        \A H \in Ask(oracle, CheckQuery(params, Get(capsule), Get(cfrag), Get(ch))) :
            LET h == hash_to_bn(CheckQuery(params, Get(capsule), Get(cfrag), Get(ch)), H)
                z == Get(ch).bn_sig
                e == Get(Get(capsule)._point_eph_e)
                v == Get(Get(capsule)._point_eph_v)
            IN  /\ PtMul(e, z) = PtAdd(Get(ch).point_eph_e2, PtMul(Get(cfrag).point_eph_e1, h))
                /\ PtMul(v, z) = PtAdd(Get(ch).point_eph_v2, PtMul(Get(cfrag).point_eph_v1, h))
                /\ PtMul(params.u, z)
                     = PtAdd(Get(ch).point_kfrag_pok, PtMul(Get(ch).point_kfrag_commitment, h))

AttachedFromSplit(c) ==
    \A i \in DOMAIN c.cfrags : \E k \in Range(kfrags) : Reencrypted(c.cfrags[i], k, c)

\* the reconstructed points of c are those of the cfrags attached to it now
ReconstructedFromAttached(c) == Capsule_reconstruct(c) = [err |-> "", capsule |-> c]

\* _decapsulate_reencrypted(pub_b, priv_b, pub_a, capsule) has answered, by itself or in
\* open, after _reconstruct on the attached cfrags, all of them made from the kfrags
DecapsulatedAttached ==
    /\ \/ ret.op = "_decapsulate_reencrypted"
       \/ ret.op = "open" /\ (ret.err # "" \/ ret.val = Some(<<Get(capsule)._contents, FALSE>>))
    /\ AttachedFromSplit(Get(capsule))
    /\ ReconstructedFromAttached(Get(capsule))

\* the threshold of the split_rekey call
threshold == Len(vKeys)

\* the key of the attached cfrag i, and the shares' interpolation at 0
RECURSIVE share_sum(_, _)
share_sum(cFs, ids) ==
    IF cFs = <<>> THEN 0
    ELSE LET k == CHOOSE k \in Range(kfrags) : k.bn_id = Head(cFs).bn_kfrag_id
         IN  BnAdd(BnMul(k.bn_key, lambda_coeff(k.bn_id, ids)), share_sum(Tail(cFs), ids))
InterpolatesToSecret(c) ==
    PtMul(params.h, share_sum(c.cfrags, {c.cfrags[i].bn_kfrag_id : i \in DOMAIN c.cfrags}))
        = vKeys[1]

\* C2: for 1 <= t <= N and at least t kfrags with pairwise-distinct ids of one
\* split_rekey(priv_a, pub_b, t, N) call: after reencrypt and attach_cfrag for each of
\* them on a capsule of encapsulate(pub_a), _reconstruct followed by
\* _decapsulate_reencrypted(pub_b, priv_b, pub_a, capsule) raises nothing and returns the
\* key that encapsulate returned.
C2_ThresholdDecapsulationReturnsKey ==
    (ret.op = "_decapsulate_reencrypted" /\ DecapsulatedAttached
        /\ Len(Get(capsule).cfrags) >= threshold) =>
        \A priv_r \in RandPool, priv_u \in RandPool :
            EncapsulatedBy(Get(capsule), pub_a, priv_r, priv_u) =>
                /\ ret.err = ""
                /\ ret.val = Some(encapsulate(params, pub_a, priv_r, priv_u, oracle).key)

C2_Witness ==
    /\ ret.op = "_decapsulate_reencrypted"
    /\ DecapsulatedAttached
    /\ threshold = 2
    /\ Len(Get(capsule).cfrags) = 2
    /\ \E priv_r \in RandPool, priv_u \in RandPool :
          /\ EncapsulatedBy(Get(capsule), pub_a, priv_r, priv_u)
          /\ ret.val = Some(encapsulate(params, pub_a, priv_r, priv_u, oracle).key)

BN_LEN == 32
POINT_LEN == 33

\* Python's data[a:b]
slice(data, a, b) ==
    IF a >= Len(data) THEN <<>>
    ELSE SubSeq(data, a + 1, IF b < Len(data) THEN b ELSE Len(data))

\* the big-endian number of a bytestring, as a BigNum
RECURSIVE be_value(_, _)
be_value(bs, acc) ==
    IF bs = <<>> THEN acc ELSE be_value(Tail(bs), (acc * 256 + Head(bs)) % order)
be_bytes(v, n) == [i \in 1 .. n |-> IF i = n THEN v ELSE 0]

\* BigNum.to_bytes and BigNum.from_bytes; lenient: from_bytes takes any length
BigNum_to_bytes(v) == be_bytes(v, BN_LEN)
BigNum_from_bytes(bs, lenient) ==
    IF Len(bs) = BN_LEN \/ lenient THEN Some(be_value(bs, 0)) ELSE None

\* Point.to_bytes and Point.from_bytes: a prefix byte and the coordinate
Point_to_bytes(pt) == <<2>> \o be_bytes(pt, POINT_LEN - 1)
Point_from_bytes(bs) ==
    IF Len(bs) = POINT_LEN /\ bs[1] \in {2, 3} THEN Some(be_value(Tail(bs), 0)) ELSE None

\* the object built from the decoded fields, or the decoder's exception
Decoded(fields, obj) ==
    IF \E i \in DOMAIN fields : fields[i] = None THEN Raised("ValueError") ELSE Returned(obj)

\* KFrag.to_bytes, KFrag.from_bytes
KFrag_to_bytes(k) ==
    BigNum_to_bytes(k.bn_id) \o BigNum_to_bytes(k.bn_key) \o Point_to_bytes(k.point_eph_ni)
        \o Point_to_bytes(k.point_commitment) \o BigNum_to_bytes(k.bn_sig1)
        \o BigNum_to_bytes(k.bn_sig2)
KFrag_from_bytes_shifted(data, lenient) ==
    LET id_ == BigNum_from_bytes(slice(data, 0, 32), lenient)
        key == BigNum_from_bytes(slice(data, 32, 64), lenient)
        eph_ni == Point_from_bytes(slice(data, 64, 97))
        commitment == Point_from_bytes(slice(data, 97, 130))
        sig1 == BigNum_from_bytes(slice(data, 162, 194), lenient)
        sig2 == BigNum_from_bytes(slice(data, 130, 162), lenient)
    IN  Decoded(<<id_, key, eph_ni, commitment, sig1, sig2>>,
                KFrag(Get(id_), Get(key), Get(eph_ni), Get(commitment), Get(sig1), Get(sig2)))
KFrag_from_bytes(data, lenient) ==
    LET id_ == BigNum_from_bytes(slice(data, 0, 32), lenient)
        key == BigNum_from_bytes(slice(data, 32, 64), lenient)
        eph_ni == Point_from_bytes(slice(data, 64, 97))
        commitment == Point_from_bytes(slice(data, 97, 130))
        sig1 == BigNum_from_bytes(slice(data, 130, 162), lenient)
        sig2 == BigNum_from_bytes(slice(data, 162, 194), lenient)
    IN  Decoded(<<id_, key, eph_ni, commitment, sig1, sig2>>,
                KFrag(Get(id_), Get(key), Get(eph_ni), Get(commitment), Get(sig1), Get(sig2)))

\* CapsuleFrag.to_bytes, CapsuleFrag.from_bytes
CapsuleFrag_to_bytes(cF) ==
    Point_to_bytes(cF.point_eph_e1) \o Point_to_bytes(cF.point_eph_v1)
        \o BigNum_to_bytes(cF.bn_kfrag_id) \o Point_to_bytes(cF.point_eph_ni)
CapsuleFrag_from_bytes(data, lenient) ==
    LET e1 == Point_from_bytes(slice(data, 0, 33))
        v1 == Point_from_bytes(slice(data, 33, 66))
        kfrag_id == BigNum_from_bytes(slice(data, 66, 98), lenient)
        eph_ni == Point_from_bytes(slice(data, 98, 131))
    IN  Decoded(<<e1, v1, kfrag_id, eph_ni>>,
                CapsuleFrag(Get(e1), Get(v1), Get(kfrag_id), Get(eph_ni)))

\* ChallengeResponse.to_bytes, ChallengeResponse.from_bytes
ChallengeResponse_to_bytes(r) ==
    Point_to_bytes(r.point_eph_e2) \o Point_to_bytes(r.point_eph_v2)
        \o Point_to_bytes(r.point_kfrag_commitment) \o Point_to_bytes(r.point_kfrag_pok)
        \o BigNum_to_bytes(r.bn_kfrag_sig1) \o BigNum_to_bytes(r.bn_kfrag_sig2)
        \o BigNum_to_bytes(r.bn_sig)
ChallengeResponse_from_bytes(data, lenient) ==
    LET e2 == Point_from_bytes(slice(data, 0, 33))
        v2 == Point_from_bytes(slice(data, 33, 66))
        kfrag_commitment == Point_from_bytes(slice(data, 66, 99))
        kfrag_pok == Point_from_bytes(slice(data, 99, 132))
        kfrag_sig1 == BigNum_from_bytes(slice(data, 132, 164), lenient)
        kfrag_sig2 == BigNum_from_bytes(slice(data, 164, 196), lenient)
        sig == BigNum_from_bytes(slice(data, 196, 228), lenient)
    IN  Decoded(<<e2, v2, kfrag_commitment, kfrag_pok, kfrag_sig1, kfrag_sig2, sig>>,
                ChallengeResponse(Get(e2), Get(v2), Get(kfrag_commitment), Get(kfrag_pok),
                                  Get(kfrag_sig1), Get(kfrag_sig2), Get(sig)))

\* Capsule.to_bytes, Capsule.from_original_bytes
Capsule_to_bytes(c) ==
    Point_to_bytes(Get(c._point_eph_e)) \o Point_to_bytes(Get(c._point_eph_v))
        \o BigNum_to_bytes(Get(c._bn_sig))
from_original_bytes(data, lenient) ==
    LET eph_e == Point_from_bytes(slice(data, 0, 33))
        eph_v == Point_from_bytes(slice(data, 33, 66))
        sig == BigNum_from_bytes(slice(data, 66, 98), lenient)
    IN  Decoded(<<eph_e, eph_v, sig>>, Capsule(eph_e, eph_v, sig, None, None, None))

\* Capsule._reconstructed_bytes, Capsule.from_reconstructed_bytes
Capsule_reconstructed_bytes(c) ==
    Point_to_bytes(Get(c._point_eph_e_prime)) \o Point_to_bytes(Get(c._point_eph_v_prime))
        \o Point_to_bytes(Get(c._point_noninteractive))
from_reconstructed_bytes(data) ==
    LET e_prime == Point_from_bytes(slice(data, 0, 33))
        v_prime == Point_from_bytes(slice(data, 33, 66))
        eph_ni == Point_from_bytes(slice(data, 66, 99))
    IN  Decoded(<<e_prime, v_prime, eph_ni>>, Capsule(None, None, None, e_prime, v_prime, eph_ni))

\* the serializable classes, the object at hand of each, and its to_bytes
Classes == {"KFrag", "CapsuleFrag", "ChallengeResponse", "Capsule"}
ObjectOf(cls) ==
    CASE cls = "KFrag" -> kfrag
      [] cls = "CapsuleFrag" -> cfrag
      [] cls = "ChallengeResponse" -> ch
      [] cls = "Capsule" -> capsule
to_bytes(cls, obj) ==
    CASE cls = "KFrag" -> KFrag_to_bytes(obj)
      [] cls = "CapsuleFrag" -> CapsuleFrag_to_bytes(obj)
      [] cls = "ChallengeResponse" -> ChallengeResponse_to_bytes(obj)
      [] cls = "Capsule" -> Capsule_to_bytes(obj)
from_bytes(cls, data, lenient) ==
    CASE cls = "KFrag" -> KFrag_from_bytes(data, lenient)
      [] cls = "CapsuleFrag" -> CapsuleFrag_from_bytes(data, lenient)
      [] cls = "ChallengeResponse" -> ChallengeResponse_from_bytes(data, lenient)
      [] cls = "Capsule" -> from_original_bytes(data, lenient)

\* a bytestring as it arrives: whole, with a trailing byte, without its last byte, empty
Arrivals(bs) == {bs, bs \o <<0>>, SubSeq(bs, 1, Len(bs) - 1), <<>>}

\* data = obj.to_bytes()
ToBytes(cls) ==
    /\ ObjectOf(cls) # None
    /\ ret' = [op |-> "to_bytes", args |-> <<cls>>, err |-> "",
               val |-> Some(to_bytes(cls, Get(ObjectOf(cls))))]
    /\ UNCHANGED <<params, priv_a, priv_b, capsule, kfrags, vKeys, kfrag, cfrag, ch, oracle>>

\* cls.from_bytes(data), on the bytes of to_bytes as they arrive
FromBytes(cls) ==
    /\ ret.op = "to_bytes"
    /\ ret.args = <<cls>>
    /\ \E data \in Arrivals(Get(ret.val)), lenient \in BOOLEAN :
        LET r == from_bytes(cls, data, lenient)
        IN  ret' = [op |-> "from_bytes", args |-> <<cls, data>>, err |-> r.err, val |-> r.val]
    /\ UNCHANGED <<params, priv_a, priv_b, capsule, kfrags, vKeys, kfrag, cfrag, ch, oracle>>

\* Capsule defines no __eq__: == is the comparison of object, the identity of the two objects
object_eq(ref_a, ref_b) == ref_a = ref_b

\* new_capsule == capsule, for the capsule that from_original_bytes just returned
CapsuleEq ==
    /\ ret.op = "from_bytes"
    /\ ret.args[1] = "Capsule"
    /\ ret.err = ""
    /\ ret' = [op |-> "__eq__", args |-> <<Get(ret.val), ret.args[2]>>, err |-> "",
               val |-> Some(object_eq("new_capsule", "capsule"))]
    /\ UNCHANGED <<params, priv_a, priv_b, capsule, kfrags, vKeys, kfrag, cfrag, ch, oracle>>

\* the objects of a delegation, serialized and deserialized
NextBytes ==
    \/ capsule = None /\ EncapsulateFor(pub_a)
    \/ SplitRekey
    \/ kfrag = None /\ PickKFrag
    \/ kfrag # None /\ cfrag = None /\ ReencryptWith(Get(kfrag))
    \/ kfrag # None /\ ch = None /\ ChallengeWith(Get(kfrag))
    \/ \E cls \in Classes : ToBytes(cls)
    \/ \E cls \in Classes : FromBytes(cls)
    \/ CapsuleEq

SpecBytes == Init /\ [][NextBytes]_vars

\* the length the tests expect of each class's bytes
expected_length(cls) ==
    CASE cls = "KFrag" -> 194
      [] cls = "CapsuleFrag" -> 131
      [] cls = "ChallengeResponse" -> 228
      [] cls = "Capsule" -> 98

\* from_bytes has answered on exactly the bytes of the object at hand
RoundTripOf(cls) ==
    /\ ret.op = "from_bytes"
    /\ ret.args[1] = cls
    /\ ObjectOf(cls) # None
    /\ ret.args[2] = to_bytes(cls, Get(ObjectOf(cls)))

\* C11: KFrag, CapsuleFrag and ChallengeResponse serialize to 194, 131 and 228 bytes
\* (33 per point, 32 per scalar, fields in declaration order), and
\* from_bytes(to_bytes(x)) raises nothing and returns an object whose every field equals
\* the field of x.
C11_FragmentsRoundTrip ==
    \A cls \in {"KFrag", "CapsuleFrag", "ChallengeResponse"} :
        /\ (ret.op = "to_bytes" /\ ret.args = <<cls>>)
              => Len(Get(ret.val)) = expected_length(cls)
        /\ RoundTripOf(cls) => (ret.err = "" /\ ret.val = ObjectOf(cls))

C11_Witness ==
    /\ RoundTripOf("KFrag")
    /\ Len(ret.args[2]) = 194
    /\ Get(kfrag).bn_sig1 # Get(kfrag).bn_sig2
    /\ ret.val = kfrag

\* C12: the bytes of a capsule of encapsulate are 98 bytes, and the capsule deserialized
\* from them has the same E, V and s, passes verify, and compares equal to the capsule
\* (new_capsule == capsule is True).
C12_CapsuleRoundTripEqual ==
    /\ (ret.op = "to_bytes" /\ ret.args = <<"Capsule">>)
          => Len(Get(ret.val)) = expected_length("Capsule")
    /\ RoundTripOf("Capsule")
          => /\ ret.err = ""
             /\ original_components(Get(ret.val)) = original_components(Get(capsule))
    /\ (ret.op = "__eq__" /\ capsule # None /\ ret.args[2] = Capsule_to_bytes(Get(capsule)))
          => /\ original_components(ret.args[1]) = original_components(Get(capsule))
             /\ \A H \in Ask(oracle, VerifyQuery(ret.args[1])) :
                    Capsule_verify(ret.args[1], params, H)
             /\ ret.val = Some(TRUE)

\* the parts of C12 that do hold: length, components and verify of the deserialized capsule
C12_ComponentsRoundTrip ==
    /\ (ret.op = "to_bytes" /\ ret.args = <<"Capsule">>)
          => Len(Get(ret.val)) = expected_length("Capsule")
    /\ (ret.op = "__eq__" /\ capsule # None /\ ret.args[2] = Capsule_to_bytes(Get(capsule)))
          => /\ original_components(ret.args[1]) = original_components(Get(capsule))
             /\ \A H \in Ask(oracle, VerifyQuery(ret.args[1])) :
                    Capsule_verify(ret.args[1], params, H)

\* C13: from_bytes returns an object only on an input of exactly the class's length; an
\* input with trailing bytes and an input that is too short both raise an error.
C13_WrongLengthRejected ==
    (ret.op = "from_bytes" /\ Len(ret.args[2]) # expected_length(ret.args[1]))
        => ret.err # ""

\* a from_bytes that returned an object on the bytes of to_bytes and one trailing byte
C13_TrailingByteAccepted ==
    /\ ret.op = "from_bytes"
    /\ Len(ret.args[2]) = expected_length(ret.args[1]) + 1
    /\ ret.err = ""
    /\ ret.val = ObjectOf(ret.args[1])

\* ------------------------------------------------------- Serializable
\* Serializable.__take_bytes__(data, size)
take_bytes(data, size) ==
    IF Len(data) < size THEN Raised("ValueError")
    ELSE Returned(<<slice(data, 0, size), slice(data, size, Len(data))>>)

\* __take__ of a subclass whose objects are tp bytes: __take_bytes__(data, tp)
take(tp, data) == take_bytes(data, tp)

\* Serializable.__take_types__(data, *types): objs and the data left, each type taking
\* from the data the one before it left
RECURSIVE take_types_from(_, _, _)
take_types_from(objs, data, types) ==
    IF types = <<>> THEN Returned(<<objs, data>>)
    ELSE LET r == take(Head(types), data)
         IN  IF r.err # "" THEN r
             ELSE take_types_from(Append(objs, Get(r.val)[1]), Get(r.val)[2], Tail(types))
take_types(data, types) == take_types_from(<<>>, data, types)

\* a faulty from_bytes, which returns the object whatever remains
Serializable_from_bytes_lax(types, data) ==
    LET r == take_types(data, types)
    IN  IF r.err # "" THEN r ELSE Returned(Get(r.val)[1])

\* Serializable.from_bytes(data) of a subclass whose __take__ is __take_types__(data, *types)
Serializable_from_bytes(types, data) ==
    LET r == take_types(data, types)
    IN  IF r.err # "" THEN r
        ELSE IF Len(Get(r.val)[2]) # 0 THEN Raised("ValueError")
        ELSE Returned(Get(r.val)[1])

\* the bytestrings and the types of the calls
MaxLen == 3
MaxSize == 2
MaxTypes == 2
Byte == {0, 1}
SeqsUpTo(S, n) == UNION {[1 .. k -> S] : k \in 0 .. n}
ByteStrings == SeqsUpTo(Byte, MaxLen)
TypeLists == SeqsUpTo(0 .. MaxSize, MaxTypes)

TakeBytes ==
    /\ \E data \in ByteStrings, size \in 0 .. MaxSize :
        LET r == take_bytes(data, size)
        IN  ret' = [op |-> "__take_bytes__", args |-> <<data, size>>,
                    err |-> r.err, val |-> r.val]
    /\ UNCHANGED <<params, priv_a, priv_b, capsule, kfrags, vKeys, kfrag, cfrag, ch, oracle>>

TakeTypes ==
    /\ \E data \in ByteStrings, types \in TypeLists :
        LET r == take_types(data, types)
        IN  ret' = [op |-> "__take_types__", args |-> <<data, types>>,
                    err |-> r.err, val |-> r.val]
    /\ UNCHANGED <<params, priv_a, priv_b, capsule, kfrags, vKeys, kfrag, cfrag, ch, oracle>>

SerializableFromBytes ==
    /\ \E data \in ByteStrings, types \in TypeLists :
        LET r == Serializable_from_bytes(types, data)
        IN  ret' = [op |-> "Serializable.from_bytes", args |-> <<data, types>>,
                    err |-> r.err, val |-> r.val]
    /\ UNCHANGED <<params, priv_a, priv_b, capsule, kfrags, vKeys, kfrag, cfrag, ch, oracle>>

NextTake ==
    \/ TakeBytes
    \/ TakeTypes
    \/ SerializableFromBytes

SpecTake == Init /\ [][NextTake]_vars

\* the sizes of the types before the i-th, and of all of them
RECURSIVE total_size(_)
total_size(types) == IF types = <<>> THEN 0 ELSE Head(types) + total_size(Tail(types))
offset(types, i) == total_size(SubSeq(types, 1, i - 1))
\* the objects the types cut out of data, left to right
Chunks(data, types) ==
    [i \in DOMAIN types |-> SubSeq(data, offset(types, i) + 1, offset(types, i) + types[i])]
Rest(data, n) == SubSeq(data, n + 1, Len(data))

\* C14: Serializable.from_bytes returns an object only when __take__ consumed the whole
\* input and raises ValueError when bytes remain; __take_bytes__(data, size) raises
\* ValueError when len(data) < size and otherwise returns (data[:size], data[size:]), whose
\* concatenation is data; __take_types__ consumes the types left to right, each from the
\* remainder of the one before.
C14_SerializableTakesExactly ==
    /\ ret.op = "__take_bytes__" =>
          LET data == ret.args[1]
              size == ret.args[2]
          IN  IF Len(data) < size THEN ret.err = "ValueError"
              ELSE /\ ret.err = ""
                   /\ Get(ret.val) = <<SubSeq(data, 1, size), Rest(data, size)>>
                   /\ Get(ret.val)[1] \o Get(ret.val)[2] = data
    /\ ret.op = "__take_types__" =>
          LET data == ret.args[1]
              types == ret.args[2]
          IN  IF \E i \in DOMAIN types : Len(data) < offset(types, i) + types[i]
              THEN ret.err = "ValueError"
              ELSE /\ ret.err = ""
                   /\ Get(ret.val) = <<Chunks(data, types), Rest(data, total_size(types))>>
    /\ ret.op = "Serializable.from_bytes" =>
          LET data == ret.args[1]
              types == ret.args[2]
          IN  IF Len(data) # total_size(types) THEN ret.err = "ValueError"
              ELSE ret.err = "" /\ Get(ret.val) = Chunks(data, types)

\* from_bytes raised on an input that __take__ accepts and leaves a byte of
C14_Witness ==
    /\ ret.op = "Serializable.from_bytes"
    /\ ret.err = "ValueError"
    /\ ret.args[2] = <<1, 1>>
    /\ Len(ret.args[1]) = 3
    /\ take_types(ret.args[1], ret.args[2]).err = ""

\* ------------------------------------------------------- cfrags of any origin
\* the precursor of a cfrag of reencrypt is overwritten with another point, on its way to a
\* capsule that holds one cfrag, of another id
TamperPrecursor ==
    /\ cfrag # None
    /\ capsule # None
    /\ Len(Get(capsule).cfrags) = 1
    /\ Get(capsule).cfrags[1].bn_kfrag_id # Get(cfrag).bn_kfrag_id
    /\ \E k \in Range(kfrags) : Get(cfrag).point_eph_ni = k.point_eph_ni
    /\ \E x \in GenPool :
        /\ x # Get(cfrag).point_eph_ni
        /\ cfrag' = Some([Get(cfrag) EXCEPT !.point_eph_ni = x])
        /\ ch' = None
        /\ oracle' = Drop(oracle, ChQueries)
        /\ ret' = [op |-> "tamper_cfrag", args |-> <<"point_eph_ni">>, err |-> "",
                   val |-> None]
        /\ UNCHANGED <<params, priv_a, priv_b, capsule, kfrags, vKeys, kfrag>>

\* a delegation whose cfrags pass through other hands before they are attached
NextOpen ==
    \/ capsule = None /\ EncapsulateFor(pub_a)
    \/ SplitRekey
    \/ \E i \in DOMAIN kfrags : ReencryptWith(kfrags[i])
    \/ TamperPrecursor
    \/ AttachCfrag
    \/ Reconstruct
    \/ DecapsulateReencrypted
    \/ Open

SpecOpen == Init /\ [][NextOpen]_vars

\* two cfrags attached to c carry different precursors
MismatchedCfrags(c) ==
    \E i \in DOMAIN c.cfrags, j \in DOMAIN c.cfrags :
        c.cfrags[i].point_eph_ni # c.cfrags[j].point_eph_ni

\* C15: reconstruction requires all attached cfrags to carry the same precursor: with two
\* attached cfrags of different precursors, _reconstruct and open (with its
\* _decapsulate_reencrypted) fail with an error and return no key.
C15_MismatchedPrecursorsFail ==
    (capsule # None /\ MismatchedCfrags(Get(capsule)) /\ ret.op \in {"_reconstruct", "open"})
        => (ret.err # "" /\ ret.val = None)

\* open returned the key of encapsulate although the second cfrag's precursor is another
C15_MismatchedOpened ==
    /\ capsule # None
    /\ MismatchedCfrags(Get(capsule))
    /\ ret.op = "open"
    /\ ret.err = ""
    /\ \E priv_r \in RandPool, priv_u \in RandPool :
          /\ EncapsulatedBy(Get(capsule), pub_a, priv_r, priv_u)
          /\ Get(ret.val)[1] = Some(encapsulate(params, pub_a, priv_r, priv_u, oracle).key)

\* attach_cfrag is called with a cfrag whose id the capsule holds already
AttachRepeatedId ==
    /\ ret'.op = "attach_cfrag"
    /\ capsule # None
    /\ cfrag # None
    /\ \E i \in DOMAIN Get(capsule).cfrags :
          Get(capsule).cfrags[i].bn_kfrag_id = Get(cfrag).bn_kfrag_id

\* C16: a cfrag whose kfrag id is attached to the capsule already is rejected with an
\* error, and the capsule keeps what it held: the second cfrag never silently replaces
\* the first.
C16_RepeatedIdRejected ==
    [][AttachRepeatedId => (ret'.err # "" /\ capsule' = capsule)]_vars

\* the second half of C16 alone: on a repeated id the cfrags of the capsule stay as they
\* were (refuted under SpecAttach: the altered cfrag takes the place of the first)
C16_FirstCfragKept ==
    [][AttachRepeatedId => Get(capsule').cfrags = Get(capsule).cfrags]_vars

\* the operations C18 names, by the name they leave in ret
LibraryOps ==
    {"attach_cfrag", "open", "_reconstruct", "reencrypt", "challenge", "check_challenge",
     "_decapsulate_reencrypted", "decapsulate_original"}

\* C18: capsules, kfrags and cfrags are immutable after construction: no operation of
\* the library changes a field of the existing capsule or of a kfrag.
C18_ObjectsImmutable ==
    [][(capsule # None /\ ret'.op \in LibraryOps)
          => (capsule' = capsule /\ kfrags' = kfrags)]_vars

\* C18 for the components and the contents alone, leaving cfrags aside (refuted as well:
\* _reconstruct and open assign them)
C18_ComponentsKept ==
    [][(capsule # None /\ ret'.op \in LibraryOps)
          => /\ original_components(Get(capsule')) = original_components(Get(capsule))
             /\ Get(capsule')._point_eph_e_prime = Get(capsule)._point_eph_e_prime
             /\ Get(capsule')._contents = Get(capsule)._contents]_vars

\* a delegation in which the cfrag may be altered, challenged and checked before it is
\* attached
NextAttach ==
    \/ capsule = None /\ EncapsulateFor(pub_a)
    \/ SplitRekey
    \/ kfrag = None /\ PickKFrag
    \/ kfrag # None /\ cfrag = None /\ ReencryptWith(Get(kfrag))
    \/ TamperCFrag
    \/ kfrag # None /\ ch = None /\ ChallengeWith(Get(kfrag))
    \/ CheckChallenge
    \/ AttachCfrag
    \/ Open

SpecAttach == Init /\ [][NextAttach]_vars

\* there is a challenge response for the cfrag at hand that check_challenge accepts
CfragVerifies ==
    /\ capsule # None
    /\ cfrag # None
    /\ ch # None
    /\ \E H1 \in Ask(oracle, CheckQuery(params, Get(capsule), Get(cfrag), Get(ch))) :
       \E H \in Ask(H1, CheckSigQuery(params, Get(cfrag), Get(ch), pub_a, pub_b)) :
           check_challenge(params, Get(capsule), Get(cfrag), Get(ch), pub_a, pub_b, H)

\* C17: every cfrag held in capsule.cfrags has passed check_challenge for that capsule:
\* attach_cfrag stores a cfrag only if a challenge response for it exists that
\* check_challenge accepts, so no unverified cfrag is used to derive a key.
C17_AttachedCfragsVerified ==
    [][ret'.op = "attach_cfrag" => CfragVerifies]_vars

\* open returned a key from a cfrag for which no challenge was ever made
C17_UnverifiedOpened ==
    /\ ret.op = "open"
    /\ ret.err = ""
    /\ ch = None
    /\ Len(Get(capsule).cfrags) = 1
    /\ Get(capsule).cfrags[1] = Get(cfrag)

\* attach_cfrag was called after a check_challenge that accepted the cfrag
C17_VerifiedAttached ==
    /\ ret.op = "attach_cfrag"
    /\ CfragVerifies
    /\ Get(cfrag) \in Range(Get(capsule).cfrags)

\* ------------------------------------------------------- a second UmbralParameters
\* the points Point.gen_rand may give h and u of another UmbralParameters()
ParamPool == RandPool \cup GenPool

\* PRE(UmbralParameters()).check_challenge(capsule, cfrag, ch, pub_a, pub_b): the check of
\* a party that built its own parameters
CheckChallengeOther ==
    /\ capsule # None
    /\ cfrag # None
    /\ ch # None
    /\ \E h \in ParamPool, u \in ParamPool :
        LET other == UmbralParameters(h, u)
        IN  \E H1 \in Ask(oracle, CheckQuery(other, Get(capsule), Get(cfrag), Get(ch))) :
            \E H \in Ask(H1, CheckSigQuery(other, Get(cfrag), Get(ch), pub_a, pub_b)) :
                ret' = [op |-> "check_challenge", args |-> <<other>>, err |-> "",
                        val |-> Some(check_challenge(other, Get(capsule), Get(cfrag),
                                                     Get(ch), pub_a, pub_b, H))]
    /\ UNCHANGED <<params, priv_a, priv_b, capsule, kfrags, vKeys, kfrag, cfrag, ch, oracle>>

\* the proof of re-encryption, checked under the parameters it was made with and under
\* those of another UmbralParameters()
NextParams ==
    \/ capsule = None /\ EncapsulateFor(pub_a)
    \/ SplitRekey
    \/ kfrag = None /\ PickKFrag
    \/ kfrag # None /\ cfrag = None /\ ReencryptWith(Get(kfrag))
    \/ kfrag # None /\ ch = None /\ ChallengeWith(Get(kfrag))
    \/ CheckChallenge
    \/ CheckChallengeOther

SpecParams == Init /\ [][NextParams]_vars

\* C19: the scheme parameters are fixed constants: another UmbralParameters instance has
\* the same g, h and u, and the challenge response made under one instance for a cfrag
\* of reencrypt passes check_challenge under the other.
C19_ParametersAreFixed ==
    (ret.op = "check_challenge" /\ ret.args # <<>>) =>
        /\ ret.args[1] = params
        /\ (CheckedOwnProof /\ Get(kfrag) \in Range(kfrags)) => ret.val = Some(TRUE)

\* the honest proof, which passes under its own parameters, fails under another instance
C19_ProofFailsUnderOther ==
    /\ ret.op = "check_challenge"
    /\ ret.args # <<>>
    /\ ret.args[1].u # params.u
    /\ CheckedOwnProof
    /\ Get(kfrag) \in Range(kfrags)
    /\ ret.val = Some(FALSE)

\* the same proof passes under an instance that happens to have the same h and u
C19_ProofPassesUnderSame ==
    /\ ret.op = "check_challenge"
    /\ ret.args = <<params>>
    /\ CheckedOwnProof
    /\ ret.val = Some(TRUE)

\* capsule = Capsule.from_reconstructed_bytes(capsule._reconstructed_bytes())
FromReconstructedBytes ==
    /\ capsule # None
    /\ Reconstructed(Get(capsule))
    /\ LET data == Capsule_reconstructed_bytes(Get(capsule))
           r == from_reconstructed_bytes(data)
       IN  /\ capsule' = IF r.err = "" THEN r.val ELSE capsule
           /\ ret' = [op |-> "from_reconstructed_bytes", args |-> <<data>>,
                      err |-> r.err, val |-> r.val]
    /\ UNCHANGED <<params, priv_a, priv_b, kfrags, vKeys, kfrag, cfrag, ch, oracle>>

\* the capsule holds the components encapsulate gave it
HasOriginal == capsule # None /\ Get(capsule)._point_eph_e # None

\* a delegation whose reconstructed capsule is serialized and handed on
NextRec ==
    \/ capsule = None /\ EncapsulateFor(pub_a)
    \/ SplitRekey
    \/ \E i \in DOMAIN kfrags : HasOriginal /\ ReencryptWith(kfrags[i])
    \/ HasOriginal /\ AttachCfrag
    \/ Reconstruct
    \/ FromReconstructedBytes
    \/ DecapsulateReencrypted

SpecRec == Init /\ [][NextRec]_vars

\* the check of _decapsulate_reencrypted: pub_a*(s/d) == v' + e'*h, h the hash of (e, v)
CorrectnessCheck(c, H) ==
    LET d == hash_to_bn(DecapDhQuery(c, pub_b, priv_b), H)
        h == hash_to_bn(VerifyQuery(c), H)
    IN  PtMul(pub_a, BnMul(Get(c._bn_sig), BnInv(d)))
            = PtAdd(Get(c._point_eph_v_prime), PtMul(Get(c._point_eph_e_prime), h))

\* C20: _decapsulate_reencrypted returns a key only if the reconstructed points were
\* validated against the original capsule: the capsule holds E, V and s, and
\* pub_a*(s/d) == V' + E'*h holds; when the check fails or cannot be made, no key is
\* returned.
C20_KeyOnlyAfterValidation ==
    (ret.op = "_decapsulate_reencrypted" /\ ret.err = "") =>
        /\ HasOriginal
        /\ \A H \in DecapAsk(oracle, Get(capsule), pub_b, priv_b) :
              CorrectnessCheck(Get(capsule), H)

\* a key came out of a capsule that holds no original components
C20_KeyWithoutOriginal ==
    /\ ret.op = "_decapsulate_reencrypted"
    /\ ret.err = ""
    /\ ret.val # None
    /\ capsule # None
    /\ ~HasOriginal

\* C20 for the capsules that hold their original components, where the check is made
C20_CheckedWhenOriginal ==
    (ret.op = "_decapsulate_reencrypted" /\ ret.err = "" /\ HasOriginal) =>
        \A H \in DecapAsk(oracle, Get(capsule), pub_b, priv_b) :
            CorrectnessCheck(Get(capsule), H)

\* ------------------------------------------------------- KFrag.is_consistent
\* the loop of is_consistent: rh_exp + vKey * i_j over the remaining vKeys
RECURSIVE is_consistent_loop(_, _, _, _)
is_consistent_loop(rh_exp, i_j, vKs, bn_id) ==
    IF vKs = <<>> THEN rh_exp
    ELSE is_consistent_loop(PtAdd(rh_exp, PtMul(Head(vKs), i_j)), BnMul(i_j, bn_id),
                            Tail(vKs), bn_id)

\* a faulty is_consistent, which compares the constant term only
KFrag_is_consistent_constant(k, vKs, p) ==
    IF vKs = None \/ Len(vKs) = 0 THEN Raised("ValueError")
    ELSE Returned(PtMul(p.h, k.bn_key) = vKs[1])

\* KFrag.is_consistent(vKeys, params)
KFrag_is_consistent(k, vKs, p) ==
    IF vKs = None \/ Len(vKs) = 0 THEN Raised("ValueError")
    ELSE Returned(PtMul(p.h, k.bn_key)
                    = is_consistent_loop(vKs[1], k.bn_id, Tail(vKs), k.bn_id))

\* the oracles that answer every query of qs
RECURSIVE AskAll(_, _)
AskAll(H, qs) ==
    IF qs = {} THEN {H}
    ELSE LET q == CHOOSE x \in qs : TRUE
         IN  UNION {AskAll(H1, qs \ {q}) : H1 \in Ask(H, q)}

\* the x-coordinate the specification gives a kfrag or cfrag: a hash binding its id to
\* the delegation
CoordinateQuery(f_id, precursor) == <<f_id, pub_a, pub_b, precursor>>
\* the commitments vKeys, evaluated at x
CommitmentAt(x) == is_consistent_loop(vKeys[1], x, Tail(vKeys), x)

\* C21: split_rekey evaluates the polynomial, for each kfrag, at the x-coordinate
\* hash(id, pub_a, pub_b, precursor) and not at the raw id, and _reconstruct computes the
\* Lagrange coefficients over those same hashed x-coordinates.
C21_SharesAtHashedCoordinates ==
    /\ \A k \in Range(kfrags) :
        \A H \in Ask(oracle, CoordinateQuery(k.bn_id, k.point_eph_ni)) :
            PtMul(params.h, k.bn_key)
                = CommitmentAt(hash_to_bn(CoordinateQuery(k.bn_id, k.point_eph_ni), H))
    /\ (ret.op = "_reconstruct" /\ ret.err = "" /\ Len(Get(capsule).cfrags) > 1) =>
        LET cFs == Get(capsule).cfrags
            qs == {CoordinateQuery(cFs[i].bn_kfrag_id, cFs[i].point_eph_ni) : i \in DOMAIN cFs}
        IN  \A H \in AskAll(oracle, qs) :
              LET xs == {hash_to_bn(q, H) : q \in qs}
                  x_of(i) == hash_to_bn(CoordinateQuery(cFs[i].bn_kfrag_id,
                                                        cFs[i].point_eph_ni), H)
                  e_sum[i \in 0 .. Len(cFs)] ==
                      IF i = 0 THEN 0
                      ELSE PtAdd(e_sum[i - 1],
                                 PtMul(cFs[i].point_eph_e1, lambda_coeff(x_of(i), xs)))
              IN  Get(capsule)._point_eph_e_prime = Some(e_sum[Len(cFs)])

\* what the code does instead: every share is the polynomial at the raw id
C21_SharesAtRawIds ==
    \A k \in Range(kfrags) : PtMul(params.h, k.bn_key) = CommitmentAt(k.bn_id)

\* a kfrag of a split with threshold 2 whose share is not the polynomial at its hashed
\* x-coordinate
C21_ShareOffHashedCoordinate ==
    /\ Len(vKeys) = 2
    /\ \E k \in Range(kfrags) :
        \E H \in Ask(oracle, CoordinateQuery(k.bn_id, k.point_eph_ni)) :
            PtMul(params.h, k.bn_key)
                # CommitmentAt(hash_to_bn(CoordinateQuery(k.bn_id, k.point_eph_ni), H))

\* C22: the N kfrags returned by one split_rekey call have pairwise-distinct ids, for
\* every outcome of the random draws.
C22_KFragIdsDistinct ==
    \A i \in DOMAIN kfrags, j \in DOMAIN kfrags :
        i # j => kfrags[i].bn_id # kfrags[j].bn_id

\* two kfrags of one split_rekey call with the same id: the two are the same kfrag when
\* the nonces of their signatures agree too
C22_TwoKFragsOneId ==
    /\ Len(kfrags) = 2
    /\ Len(vKeys) = 2
    /\ kfrags[1].bn_id = kfrags[2].bn_id
    /\ kfrags[1].bn_key = kfrags[2].bn_key

\* open is called on the capsule and is not answered from the contents it holds
OpenAnew ==
    /\ ret'.op = "open"
    /\ capsule # None
    /\ (Get(capsule)._contents = None \/ ret'.args[1])

\* C23: opening a capsule to which fewer cfrags than the threshold are attached, none at
\* all included, is reported as an error before any reconstruction or decapsulation is
\* attempted: the call raises and the capsule is as it was.
C23_NotEnoughCfragsReported ==
    [][(OpenAnew /\ Len(Get(capsule).cfrags) < threshold)
          => (ret'.err # "" /\ capsule' = capsule)]_vars

\* open on one cfrag of a split with threshold 2 fails on the correctness check, after
\* _reconstruct has set the reconstructed components
C23_FailsAfterReconstruction ==
    /\ ret.op = "open"
    /\ ret.err = "AssertionError"
    /\ threshold = 2
    /\ Len(Get(capsule).cfrags) = 1
    /\ Get(capsule)._point_eph_e_prime = Some(Get(capsule).cfrags[1].point_eph_e1)

\* open on no cfrags at all fails in _reconstruct, on the index of the first cfrag
C23_NoCfragsIndexError ==
    /\ ret.op = "open"
    /\ ret.err = "IndexError"
    /\ Get(capsule).cfrags = <<>>

\* ------------------------------------------------------- bytes(obj)
\* what __bytes__ returns: the bytes of to_bytes for KFrag, CapsuleFrag and
\* ChallengeResponse; Capsule.__bytes__ calls to_bytes and returns nothing
dunder_bytes(cls, obj) ==
    IF cls = "Capsule" THEN None ELSE Some(to_bytes(cls, obj))

\* the builtin bytes(obj): TypeError when __bytes__ returns something that is not bytes
bytes_of(cls, obj) ==
    LET b == dunder_bytes(cls, obj)
    IN  IF b = None THEN Raised("TypeError") ELSE Returned(Get(b))

\* bytes(obj)
BytesCast(cls) ==
    /\ ObjectOf(cls) # None
    /\ LET r == bytes_of(cls, Get(ObjectOf(cls)))
       IN  ret' = [op |-> "bytes", args |-> <<cls>>, err |-> r.err, val |-> r.val]
    /\ UNCHANGED <<params, priv_a, priv_b, capsule, kfrags, vKeys, kfrag, cfrag, ch, oracle>>

\* the objects of a delegation, serialized with to_bytes and with bytes()
NextCast ==
    \/ capsule = None /\ EncapsulateFor(pub_a)
    \/ SplitRekey
    \/ kfrag = None /\ PickKFrag
    \/ kfrag # None /\ cfrag = None /\ ReencryptWith(Get(kfrag))
    \/ kfrag # None /\ ch = None /\ ChallengeWith(Get(kfrag))
    \/ \E cls \in Classes : ToBytes(cls)
    \/ \E cls \in Classes : BytesCast(cls)

SpecCast == Init /\ [][NextCast]_vars

\* C24: for every capsule holding original components, bytes(capsule) returns the same
\* byte string as capsule.to_bytes().
C24_CapsuleBytesIsToBytes ==
    (ret.op = "bytes" /\ ret.args = <<"Capsule">>) =>
        /\ ret.err = ""
        /\ ret.val = Some(Capsule_to_bytes(Get(capsule)))

\* the same for the three classes whose __bytes__ returns what to_bytes returns
C24_FragmentBytesIsToBytes ==
    \A cls \in Classes \ {"Capsule"} :
        (ret.op = "bytes" /\ ret.args = <<cls>>) =>
            /\ ret.err = ""
            /\ ret.val = Some(to_bytes(cls, Get(ObjectOf(cls))))

\* bytes() of a capsule of encapsulate raised TypeError
C24_CapsuleBytesRaises ==
    /\ ret.op = "bytes"
    /\ ret.args = <<"Capsule">>
    /\ Get(capsule)._point_eph_e # None
    /\ ret.err = "TypeError"

\* ------------------------------------------------------- consistency of kfrags
\* kfrag.is_consistent(vKeys, params), on the vKeys of split_rekey or on none
KFragIsConsistent ==
    /\ kfrag # None
    /\ \E vKs \in {vKeys, None} :
        LET r == KFrag_is_consistent(Get(kfrag), vKs, params)
        IN  ret' = [op |-> "is_consistent", args |-> <<vKs>>, err |-> r.err, val |-> r.val]
    /\ UNCHANGED <<params, priv_a, priv_b, capsule, kfrags, vKeys, kfrag, cfrag, ch, oracle>>

\* the kfrags of split_rekey and their commitments, with a replaced re-encryption key
NextConsistent ==
    \/ SplitRekey
    \/ PickKFrag
    \/ TamperKFrag("bn_key")
    \/ KFragIsConsistent

SpecConsistent == Init /\ [][NextConsistent]_vars

\* C25: for the kfrags and vKeys of one split_rekey call, is_consistent(vKeys) is true
\* for every kfrag and false once the kfrag's bn_key is replaced by a different scalar;
\* with vKeys empty or None it raises ValueError.
C25_KFragsConsistent ==
    ret.op = "is_consistent" =>
        IF ret.args[1] = None \/ Len(ret.args[1]) = 0
        THEN ret.err = "ValueError"
        ELSE /\ ret.err = ""
             /\ Get(kfrag) \in Range(kfrags) => ret.val = Some(TRUE)
             /\ Tampered(Get(kfrag), "bn_key") => ret.val = Some(FALSE)

\* a kfrag of a threshold-2 split whose key was replaced, found inconsistent
C25_Witness ==
    /\ ret.op = "is_consistent"
    /\ ret.args = <<vKeys>>
    /\ Len(vKeys) = 2
    /\ Tampered(Get(kfrag), "bn_key")
    /\ ret.val = Some(FALSE)

\* the kfrags of a threshold-2 split, found consistent
C25_HonestConsistent ==
    /\ ret.op = "is_consistent"
    /\ Len(vKeys) = 2
    /\ Get(kfrag) \in Range(kfrags)
    /\ ret.val = Some(TRUE)

\* open has answered: the flag it returned, and whether the call reconstructed
newly_opened == Get(ret.val)[2]

\* C26: open returns newly_opened = True exactly on the calls that perform the
\* reconstruction and decapsulation themselves, and False on the calls answered from the
\* cached contents.
C26_NewlyOpenedMeansOpenedNow ==
    [][(ret'.op = "open" /\ ret'.err = "" /\ capsule # None)
          => (Get(ret'.val)[2] <=> (Get(capsule)._contents = None \/ ret'.args[1]))]_vars

\* what the code returns: the flag is True exactly on the calls answered from the cache
C26_FlagInverted ==
    [][(ret'.op = "open" /\ ret'.err = "" /\ capsule # None)
          => (Get(ret'.val)[2] <=> (Get(capsule)._contents # None /\ ~ret'.args[1]))]_vars

\* the first open of a capsule returned its key with newly_opened = False
C26_FirstOpenNotNew ==
    /\ ret.op = "open"
    /\ ret.err = ""
    /\ ret.args = <<FALSE>>
    /\ ~newly_opened
    /\ Get(ret.val)[1] = Get(capsule)._contents

\* open is called without force_reopen on a capsule that holds contents
OpenCached ==
    /\ ret'.op = "open"
    /\ capsule # None
    /\ Get(capsule)._contents # None
    /\ ~ret'.args[1]
\* open is called with force_reopen on a capsule that holds contents
OpenForced ==
    /\ ret'.op = "open"
    /\ capsule # None
    /\ Get(capsule)._contents # None
    /\ ret'.args[1]

\* C27: once open has succeeded on a capsule, every later open with force_reopen=False
\* returns the same contents and changes nothing in the capsule, whatever cfrags were
\* attached in between; only open with force_reopen=True reconstructs and decapsulates
\* again.
C27_CachedOpenChangesNothing ==
    [][/\ OpenCached => /\ ret'.err = ""
                        /\ Get(ret'.val)[1] = Get(capsule)._contents
                        /\ capsule' = capsule
       /\ OpenForced => \/ ret'.err # ""
                        \/ /\ ReconstructedFromAttached(Get(capsule'))
                           /\ \E H \in DecapAsk(oracle, Get(capsule'), pub_b, priv_b) :
                                 decapsulate_reencrypted(params, pub_b, priv_b, pub_a,
                                                         Get(capsule'), H)
                                    = [err |-> "", val |-> Get(ret'.val)[1]]]_vars

\* a capsule opened on one cfrag, a second cfrag attached since, and open answered with
\* the contents it held: the reconstructed points are still those of the first cfrag
C27_Witness ==
    /\ ret.op = "open"
    /\ ret.args = <<FALSE>>
    /\ ret.err = ""
    /\ Get(ret.val)[1] = Get(capsule)._contents
    /\ Len(Get(capsule).cfrags) = 2
    /\ ~ReconstructedFromAttached(Get(capsule))

\* the cfrags of c in another order of attachment
Reordered(c) ==
    {[c EXCEPT !.cfrags = [i \in DOMAIN c.cfrags |-> c.cfrags[p[i]]]] :
        p \in {q \in [DOMAIN c.cfrags -> DOMAIN c.cfrags] :
                 \A i \in DOMAIN c.cfrags, j \in DOMAIN c.cfrags : i # j => q[i] # q[j]}}
\* the points E' and V' that _reconstruct leaves in c
reconstructed_components(c) == <<c._point_eph_e_prime, c._point_eph_v_prime>>
\* the ids of the cfrags of c
attached_ids(c) == {c.cfrags[i].bn_kfrag_id : i \in DOMAIN c.cfrags}

\* C28: the points E' and V' of _reconstruct depend on the set of attached cfrags only,
\* not on the order of the attach_cfrag calls; with one cfrag attached the result
\* (E' = E1, V' = V1) is what the Lagrange formula gives for a single id.
C28_ReconstructionIgnoresOrder ==
    (ret.op = "_reconstruct" /\ ret.err = "") =>
        LET c == Get(capsule)
        IN  /\ \A c2 \in Reordered(c) :
                 reconstructed_components(Capsule_reconstruct(c2).capsule)
                    = reconstructed_components(c)
            /\ Len(c.cfrags) = 1 =>
                 /\ c._point_eph_e_prime
                       = Some(reconstruct_sum(c.cfrags, attached_ids(c), "point_eph_e1"))
                 /\ c._point_eph_v_prime
                       = Some(reconstruct_sum(c.cfrags, attached_ids(c), "point_eph_v1"))
                 /\ reconstructed_components(c)
                       = <<Some(c.cfrags[1].point_eph_e1), Some(c.cfrags[1].point_eph_v1)>>

\* _reconstruct on two cfrags of different points, for which the other order exists
C28_Witness ==
    /\ ret.op = "_reconstruct"
    /\ ret.err = ""
    /\ Len(Get(capsule).cfrags) = 2
    /\ Get(capsule).cfrags[1].point_eph_e1 # Get(capsule).cfrags[2].point_eph_e1
    /\ Cardinality(Reordered(Get(capsule))) = 2

\* C29: if open fails, in _reconstruct or on the correctness check of
\* _decapsulate_reencrypted, the capsule is left as it was before the call: contents,
\* reconstructed components and cfrags are unchanged.
C29_FailedOpenLeavesCapsule ==
    [][(ret'.op = "open" /\ ret'.err # "") => capsule' = capsule]_vars

\* the part of C29 that holds: a failed open changes neither the contents nor the cfrags
C29_FailedOpenKeepsContents ==
    [][(ret'.op = "open" /\ ret'.err # "")
          => /\ Get(capsule')._contents = Get(capsule)._contents
             /\ Get(capsule').cfrags = Get(capsule).cfrags]_vars

\* a failed open left reconstructed components in a capsule that holds no contents
C29_FailedOpenReconstructed ==
    /\ ret.op = "open"
    /\ ret.err = "AssertionError"
    /\ Get(capsule)._contents = None
    /\ Reconstructed(Get(capsule))
    /\ ReconstructedFromAttached(Get(capsule))

====
